---- MODULE Spec2Model ----
(***************************************************************************)
(* Model of the matmul dataflow kernels                                    *)
(*   reader_bmm_tile_layout.cpp  (reader pipeline + MXFP4 -> FP32 decode)  *)
(*   writer_bmm_tile_layout.cpp  (writer pipeline + FP32 -> MXFP4 encode)  *)
(* together with the circular-buffer protocol, the asynchronous transfer   *)
(* engine and the compute stage they talk to.                              *)
(***************************************************************************)
EXTENDS Integers, Sequences, FiniteSets, TLC

(***************************************************************************)
(* 32-bit words.  TLC integers are 32-bit signed, so a uint32_t is kept as *)
(* the pair <<high half, low half>> of two 16-bit values; every operation  *)
(* below is the uint32_t operation on that pair.                           *)
(***************************************************************************)
HalfMod == 2 ^ 16

W0 == <<0, 0>>

\* the uint32_t with value n, for 0 <= n < 2^31
U32(n) == <<(n \div HalfMod) % HalfMod, n % HalfMod>>

\* the value of a uint32_t known to be below 2^15 * 2^16
Val(w) == w[1] * HalfMod + w[2]

\* w >> k, 0 <= k < 32
Shr(w, k) ==
    IF k >= 16
    THEN <<0, w[1] \div (2 ^ (k - 16))>>
    ELSE <<w[1] \div (2 ^ k),
           (w[2] \div (2 ^ k)) + (w[1] % (2 ^ k)) * (2 ^ (16 - k))>>

\* w << k, 0 <= k < 32, truncated to 32 bits
Shl(w, k) ==
    IF k >= 16
    THEN <<(w[2] * (2 ^ (k - 16))) % HalfMod, 0>>
    ELSE <<((w[1] * (2 ^ k)) % HalfMod) + (w[2] \div (2 ^ (16 - k))),
           (w[2] * (2 ^ k)) % HalfMod>>

\* bit i of a value
Bit(a, i) == (a \div (2 ^ i)) % 2

\* the bitwise or of two 4-bit values, tabulated
Or4 ==
    [a \in 0..15 |-> [b \in 0..15 |->
        (IF Bit(a, 0) + Bit(b, 0) > 0 THEN 1 ELSE 0)
        + (IF Bit(a, 1) + Bit(b, 1) > 0 THEN 2 ELSE 0)
        + (IF Bit(a, 2) + Bit(b, 2) > 0 THEN 4 ELSE 0)
        + (IF Bit(a, 3) + Bit(b, 3) > 0 THEN 8 ELSE 0)]]

\* the bitwise or of two 16-bit values, nibble by nibble
Or16(a, b) ==
    Or4[a % 16][b % 16]
    + 16 * Or4[(a \div 16) % 16][(b \div 16) % 16]
    + 256 * Or4[(a \div 256) % 16][(b \div 256) % 16]
    + 4096 * Or4[a \div 4096][b \div 4096]

\* a | b
BitOr(a, b) == <<Or16(a[1], b[1]), Or16(a[2], b[2])>>

\* w & (2^k - 1), the masks of the codec being 0x0F, 0xFF and 0x7FFFFF
LowBits(w, k) ==
    IF k >= 16 THEN <<w[1] % (2 ^ (k - 16)), w[2]>> ELSE <<0, w[2] % (2 ^ k)>>

(***************************************************************************)
(* Bounds and program constants                                            *)
(***************************************************************************)
\* 32 4-bit values share one exponent
MXFP4_BLOCK_SIZE == 32

\* number of 32-value groups in one tile (tile_size / MXFP4_BLOCK_SIZE)
NumGroups == 2

\* tile_elements = single_tile_size_bytes / sizeof(uint32_t)
TileElements == NumGroups * MXFP4_BLOCK_SIZE

\* words of the compact form of a tile: (tile_elements / 32) * 5
CompactWords == (TileElements \div MXFP4_BLOCK_SIZE) * 5

(***************************************************************************)
(* Memory: a function from word addresses 0..n-1 to uint32_t words.        *)
(***************************************************************************)
Store(mem, a, w) == [mem EXCEPT ![a] = w]

ZeroMem(n) == [a \in 0..(n - 1) |-> W0]

\* the n words of mem starting at address base, as a memory of their own
Slice(mem, base, n) == [a \in 0..(n - 1) |-> mem[base + a]]

\* memory m1 followed by memory m2 (n1 and n2 words)
Concat(m1, n1, m2, n2) ==
    [a \in 0..(n1 + n2 - 1) |-> IF a < n1 THEN m1[a] ELSE m2[a - n1]]

(***************************************************************************)
(* convert_mxfp4_to_fp32_tile(mxfp4_tile, fp32_tile, tile_size)            *)
(* mem is the memory both pointers point into; src and dst are the word    *)
(* addresses of mxfp4_tile and fp32_tile (equal when the call is aliased). *)
(***************************************************************************)
\* DecodeValue without the zero case of lines 28-29
DecodeValueNoZeroCase(mem, src, dst, i, j, shared_exp) ==
    LET byte_idx == (i * 5) + (j \div 8) + 1
        nibble_idx == j % 8
        mxfp4_val == Val(LowBits(Shr(mem[src + byte_idx], nibble_idx * 4), 4))
        fp32_val == BitOr(Shl(U32(shared_exp), 23), Shl(U32(mxfp4_val), 19))
    IN  Store(mem, dst + i * MXFP4_BLOCK_SIZE + j, fp32_val)

\* one iteration of the inner loop, reader lines 21-34
DecodeValue(mem, src, dst, i, j, shared_exp) ==
    LET byte_idx == (i * 5) + (j \div 8) + 1
        nibble_idx == j % 8
        mxfp4_val == Val(LowBits(Shr(mem[src + byte_idx], nibble_idx * 4), 4))
        fp32_val == BitOr(Shl(U32(shared_exp), 23), Shl(U32(mxfp4_val), 19))
    IN  IF mxfp4_val = 0
        THEN Store(mem, dst + i * MXFP4_BLOCK_SIZE + j, W0)
        ELSE Store(mem, dst + i * MXFP4_BLOCK_SIZE + j, fp32_val)

\* the inner loop; each iteration's memory is bound as a set element, so that
\* it is a value when the next iteration starts
RECURSIVE DecodeInner(_, _, _, _, _, _)
DecodeInner(mem, src, dst, i, j, shared_exp) ==
    IF j >= MXFP4_BLOCK_SIZE THEN mem
    ELSE CHOOSE out \in {DecodeInner(next, src, dst, i, j + 1, shared_exp) :
                            next \in {DecodeValue(mem, src, dst, i, j, shared_exp)}} : TRUE

\* one iteration of the outer loop: the shared exponent is read once, before
\* any value of the group is written
DecodeGroup(mem, src, dst, i) ==
    LET shared_exp == Val(LowBits(Shr(mem[src + i * 5], 24), 8))
    IN  DecodeInner(mem, src, dst, i, 0, shared_exp)

RECURSIVE DecodeOuter(_, _, _, _, _)
DecodeOuter(mem, src, dst, tile_size, i) ==
    IF i >= tile_size \div MXFP4_BLOCK_SIZE THEN mem
    ELSE CHOOSE out \in {DecodeOuter(next, src, dst, tile_size, i + 1) :
                            next \in {DecodeGroup(mem, src, dst, i)}} : TRUE

convert_mxfp4_to_fp32_tile(mem, src, dst, tile_size) ==
    DecodeOuter(mem, src, dst, tile_size, 0)

(***************************************************************************)
(* convert_fp32_to_mxfp4_tile(fp32_tile, mxfp4_tile, tile_size)            *)
(***************************************************************************)
\* exponent field of a word: (fp32_val >> 23) & 0xFF
ExpField(w) == Val(LowBits(Shr(w, 23), 8))

\* MaxExp without the comparison of line 20: the last nonzero value's
\* exponent wins
RECURSIVE MaxExpLastWins(_, _, _, _, _)
MaxExpLastWins(mem, src, i, j, max_exp) ==
    IF j >= MXFP4_BLOCK_SIZE THEN max_exp
    ELSE LET fp32_val == mem[src + i * MXFP4_BLOCK_SIZE + j]
             exp == ExpField(fp32_val)
         IN  MaxExpLastWins(mem, src, i, j + 1,
                            IF fp32_val # W0 THEN exp ELSE max_exp)

\* the first inner loop, writer lines 15-24
RECURSIVE MaxExp(_, _, _, _, _)
MaxExp(mem, src, i, j, max_exp) ==
    IF j >= MXFP4_BLOCK_SIZE THEN max_exp
    ELSE LET fp32_val == mem[src + i * MXFP4_BLOCK_SIZE + j]
             exp == ExpField(fp32_val)
         IN  CHOOSE out \in {MaxExp(mem, src, i, j + 1, next) :
                                next \in {IF fp32_val # W0 /\ exp > max_exp
                                          THEN exp ELSE max_exp}} : TRUE

\* Mxfp4Val with the mantissa shifted by 20, the top 3 bits
Mxfp4ValTopThree(fp32_val, max_exp) ==
    IF fp32_val # W0
    THEN LET mantissa == Val(Shr(LowBits(fp32_val, 23), 20))
             exp == ExpField(fp32_val)
             exp_diff == max_exp - exp
         IN  IF exp_diff >= 0 /\ exp_diff < 16
             THEN (mantissa \div (2 ^ exp_diff)) % 256
             ELSE 0
    ELSE 0

\* the 4-bit value computed for one word, writer lines 32-44
Mxfp4Val(fp32_val, max_exp) ==
    IF fp32_val # W0
    THEN LET mantissa == Val(Shr(LowBits(fp32_val, 23), 19))
             exp == ExpField(fp32_val)
             exp_diff == max_exp - exp
         IN  IF exp_diff >= 0 /\ exp_diff < 16
             THEN (mantissa \div (2 ^ exp_diff)) % 256
             ELSE 0
    ELSE 0

\* one iteration of the second inner loop, writer lines 31-49
EncodeValue(mem, src, dst, i, j, max_exp) ==
    LET fp32_val == mem[src + i * MXFP4_BLOCK_SIZE + j]
        mxfp4_val == Mxfp4Val(fp32_val, max_exp)
        byte_idx == (i * 5) + (j \div 8) + 1
        nibble_idx == j % 8
    IN  CHOOSE out \in {Store(mem, dst + byte_idx,
                               BitOr(mem[dst + byte_idx], Shl(U32(val), nibble_idx * 4))) :
                            val \in {mxfp4_val}} : TRUE

RECURSIVE EncodeInner(_, _, _, _, _, _)
EncodeInner(mem, src, dst, i, j, max_exp) ==
    IF j >= MXFP4_BLOCK_SIZE THEN mem
    ELSE CHOOSE out \in {EncodeInner(next, src, dst, i, j + 1, max_exp) :
                            next \in {EncodeValue(mem, src, dst, i, j, max_exp)}} : TRUE

EncodeGroup(mem, src, dst, i) ==
    CHOOSE out \in {EncodeInner(Store(mem, dst + i * 5, Shl(U32(max_exp), 24)),
                                src, dst, i, 0, max_exp) :
                        max_exp \in {MaxExp(mem, src, i, 0, 0)}} : TRUE

RECURSIVE EncodeOuter(_, _, _, _, _)
EncodeOuter(mem, src, dst, tile_size, i) ==
    IF i >= tile_size \div MXFP4_BLOCK_SIZE THEN mem
    ELSE CHOOSE out \in {EncodeOuter(next, src, dst, tile_size, i + 1) :
                            next \in {EncodeGroup(mem, src, dst, i)}} : TRUE

convert_fp32_to_mxfp4_tile(mem, src, dst, tile_size) ==
    EncodeOuter(mem, src, dst, tile_size, 0)


(***************************************************************************)
(* Sample tile contents                                                    *)
(***************************************************************************)
\* 4-bit magnitude of value j under pattern p
Magnitude(p, j) ==
    CASE p = 0 -> 0
      [] p = 1 -> (j % 15) + 1
      [] p = 2 -> IF j % 2 = 0 THEN 0 ELSE 8 + (j % 8)
      [] OTHER -> (j * 7 + 3) % 16

MagPatterns == 0..3

SharedExps == {0, 127, 200}

\* magnitude word wi (0..3) of a group: value 8*wi+n sits in nibble n
MagWord(p, wi) ==
    LET m(n) == Magnitude(p, 8 * wi + n)
    IN  <<m(4) + 16 * m(5) + 256 * m(6) + 4096 * m(7),
          m(0) + 16 * m(1) + 256 * m(2) + 4096 * m(3)>>

\* word k (0..4) of a compact group with shared exponent e and pattern p
CompactGroupWord(e, p, k) ==
    IF k = 0 THEN <<e * 256, 0>> ELSE MagWord(p, k - 1)

GroupChoices == [e : SharedExps, p : MagPatterns]

\* a tile-sized buffer holding the compact form described by gs (one choice
\* per group) in its first CompactWords words
CompactTile(gs) ==
    [a \in 0..(TileElements - 1) |->
        IF a < CompactWords
        THEN CompactGroupWord(gs[(a \div 5) + 1].e, gs[(a \div 5) + 1].p, a % 5)
        ELSE W0]

CompactTiles == {CompactTile(gs) : gs \in [1..NumGroups -> GroupChoices]}

\* a full-precision word: sign 0, exponent field e, top mantissa nibble m
Fp32Word(e, m) == <<e * 128 + m * 8, 0>>

\* full-precision sample tile k
Fp32Tile(k) ==
    [a \in 0..(TileElements - 1) |->
        IF (a + k) % 5 = 0 THEN W0
        ELSE Fp32Word(120 + ((a + k) % 3) + 10 * (a \div MXFP4_BLOCK_SIZE), (a * 3 + k) % 16)]

\* a full-precision word with the sign bit and low mantissa bits set
Fp32WordSigned(e, m) == <<32768 + e * 128 + m * 8 + 5, 4660>>

\* word j of a full-precision group under pattern p:
\*   0 all zero words; 1 one exponent, top mantissa nibbles 1..15; 2 one
\*   exponent, top mantissa nibbles 0..15; 3 exponents 100, 110 and 120 with
\*   some zero words; 4 exponent field 0; 5 one exponent, negative values
\*   with low mantissa bits
Fp32GroupWord(p, j) ==
    CASE p = 0 -> W0
      [] p = 1 -> Fp32Word(127, (j % 15) + 1)
      [] p = 2 -> Fp32Word(130, j % 16)
      [] p = 3 -> IF j % 7 = 0 THEN W0 ELSE Fp32Word(100 + 10 * (j % 3), 15 - (j % 8))
      [] p = 4 -> Fp32Word(0, (j % 15) + 1)
      [] OTHER -> Fp32WordSigned(200, (j % 15) + 1)

Fp32Patterns == 0..5

\* the full-precision tile whose group i follows pattern ps[i + 1]
Fp32GroupTile(ps) ==
    [a \in 0..(TileElements - 1) |->
        Fp32GroupWord(ps[(a \div MXFP4_BLOCK_SIZE) + 1], a % MXFP4_BLOCK_SIZE)]

Fp32GroupTiles == {Fp32GroupTile(ps) : ps \in [1..NumGroups -> Fp32Patterns]}

\* contents a scratch buffer may hold before it is written
Garbage(n) == {ZeroMem(n), [a \in 0..(n - 1) |-> <<43690, 21845 + a>>]}


(***************************************************************************)
(* State                                                                   *)
(***************************************************************************)
VARIABLES
    codec,        \* one codec call: its input and its results
    rargs,        \* the reader's runtime arguments (get_arg_val 0..22)
    wargs,        \* the writer's runtime arguments (get_arg_val 0..13)
    reader,       \* the reader's position and local variables
    writer,       \* the writer's position and local variables
    compute,      \* the compute stage's position
    cb,           \* the circular buffers: slot states, write and read pointers
    l1,           \* the staging memory: l1[c][slot] is one tile
    rd_inflight,  \* read transfers issued and not yet completed
    wr_inflight,  \* write transfers issued and not yet completed
    rlog,         \* what the reader did, in order
    wlog,         \* what the writer did, in order
    decoded       \* slots of the block being filled that decode has run on

vars == <<codec, rargs, wargs, reader, writer, compute, cb, l1,
          rd_inflight, wr_inflight, rlog, wlog, decoded>>

pipeVars == <<rargs, wargs, reader, writer, compute, cb, l1,
              rd_inflight, wr_inflight, rlog, wlog, decoded>>

\* cb_id_in0, cb_id_in1, cb_id_out0
cb_id_in0 == 0
cb_id_in1 == 1
cb_id_out0 == 16

CbIds == {cb_id_in0, cb_id_in1, cb_id_out0}

(***************************************************************************)
(* Bounds of the pipeline model                                            *)
(***************************************************************************)
\* largest batch count
MaxBatch == 2

\* largest num_blocks
MaxNumBlocks == 2

\* capacity of every circular buffer, in blocks (subblocks for the output)
CbBlocks == 2

(***************************************************************************)
(* Circular buffers (dataflow_api.h), per slot:                            *)
(*   free -> reserved_w -> filled -> reserved_r -> free                    *)
(***************************************************************************)
\* the n slots starting at slot p, wrapping at the capacity
Range(c, p, n) == {(p + k) % c.cap : k \in 0..(n - 1)}

NewCb(cap) == [cap |-> cap, st |-> [s \in 0..(cap - 1) |-> "free"], wr |-> 0, rd |-> 0]

Mark(c, slots, to) == [c EXCEPT !.st = [s \in 0..(c.cap - 1) |-> IF s \in slots THEN to ELSE c.st[s]]]

\* cb_reserve_back returns once n slots at the write pointer are free
CanReserve(c, n) ==
    /\ n <= c.cap
    /\ \A s \in Range(c, c.wr, n) : c.st[s] \in {"free", "reserved_w"}

cb_reserve_back(c, n) == Mark(c, Range(c, c.wr, n), "reserved_w")

cb_push_back(c, n) ==
    [Mark(c, Range(c, c.wr, n), "filled") EXCEPT !.wr = (c.wr + n) % c.cap]

\* cb_wait_front returns once n slots at the read pointer are filled
CanWait(c, n) ==
    /\ n <= c.cap
    /\ \A s \in Range(c, c.rd, n) : c.st[s] \in {"filled", "reserved_r"}

cb_wait_front(c, n) == Mark(c, Range(c, c.rd, n), "reserved_r")

cb_pop_front(c, n) ==
    [Mark(c, Range(c, c.rd, n), "free") EXCEPT !.rd = (c.rd + n) % c.cap]

\* get_write_ptr / get_read_ptr, as a slot number
get_write_ptr(c) == c.wr
get_read_ptr(c) == c.rd

(***************************************************************************)
(* Runtime arguments                                                       *)
(***************************************************************************)
\* block shapes of the two read operands and subblock grid of the output
Geoms == {
    [id |-> 1, in0_h |-> 1, in0_w |-> 2, in1_h |-> 2, in1_w |-> 1,
     sb_h |-> 1, sb_w |-> 2, nsb_h |-> 2, nsb_w |-> 1],
    [id |-> 2, in0_h |-> 2, in0_w |-> 1, in1_h |-> 1, in1_w |-> 2,
     sb_h |-> 2, sb_w |-> 1, nsb_h |-> 1, nsb_w |-> 2],
    [id |-> 3, in0_h |-> 2, in0_w |-> 2, in1_h |-> 2, in1_w |-> 2,
     sb_h |-> 2, sb_w |-> 2, nsb_h |-> 1, nsb_w |-> 1] }

\* reader arguments for in0 of Mt x Kt tiles and in1 of Kt x Nt tiles, both
\* row-major, read in num_blocks blocks along K
ReaderArgs(g, num_blocks, batch, bcast_B, f0, f1) ==
    LET Kt == g.in0_w * num_blocks
        Nt == g.in1_w
    IN  [in0_tensor_start_tile_id |-> 3,
         in0_tensor_stride_w |-> 1,
         in0_tensor_stride_h |-> Kt,
         in0_tensor_next_block_stride |-> g.in0_w,
         in0_block_w |-> g.in0_w,
         in0_block_h |-> g.in0_h,
         in0_block_num_tiles |-> g.in0_h * g.in0_w,
         in1_tensor_start_tile_id |-> 5,
         in1_tensor_stride_w |-> 1,
         in1_tensor_stride_h |-> Nt,
         in1_tensor_next_block_stride |-> g.in1_h * Nt,
         in1_block_w |-> g.in1_w,
         in1_block_h |-> g.in1_h,
         in1_block_num_tiles |-> g.in1_h * g.in1_w,
         num_blocks |-> num_blocks,
         MtKt |-> g.in0_h * Kt,
         KtNt |-> Kt * Nt,
         batch |-> batch,
         bcast_B |-> bcast_B,
         in0_is_mxfp4 |-> f0,
         in1_is_mxfp4 |-> f1]

\* writer arguments for a row-major output of Mt x Nt tiles; with out = 0 the
\* launch has no output subblocks
WriterArgs(g, batch, fo, out) ==
    LET Nt == g.nsb_w * g.sb_w
        Mt == g.nsb_h * g.sb_h
    IN  [out_tensor_start_tile_id |-> 7,
         out_tensor_stride_w |-> 1,
         out_tensor_stride_h |-> Nt,
         out_tensor_next_subblock_stride_w |-> g.sb_w,
         out_tensor_next_subblock_stride_h |-> g.sb_h * Nt,
         out_subblock_w |-> g.sb_w,
         out_subblock_h |-> g.sb_h,
         out_subblock_tile_count |-> g.sb_h * g.sb_w,
         out_num_subblocks_w |-> g.nsb_w,
         out_num_subblocks_h |-> out * g.nsb_h,
         MtNt |-> Mt * Nt,
         batch |-> batch,
         out_is_mxfp4 |-> fo]

\* a launch: geometry, num_blocks, batch, bcast_B, the compact-format flags of
\* in0, in1 and out, and whether there is output
Launch(g, nb, batch, bc, f, out) ==
    [g |-> g, nb |-> nb, batch |-> batch, bcast |-> bc, f |-> f, out |-> out]

\* launches without compact operands: geometries 1 and 2 over every block
\* count, batch count and broadcast flag, and the 2x2 blocks of geometry 3 as
\* the single-block, single-batch launch
PlainLaunches(out) ==
    {Launch(g, nb, b, bc, <<0, 0, 0>>, out) :
        g \in {x \in Geoms : x.id # 3}, nb \in 1..MaxNumBlocks, b \in 1..MaxBatch,
        bc \in {0, 1}}
    \cup {Launch(g, 1, 1, 0, <<0, 0, 0>>, out) : g \in {x \in Geoms : x.id = 3}}

\* the reader against a compute stage that only consumes
ReaderLaunches ==
    PlainLaunches(0)
    \cup {Launch(g, nb, 1, 0, <<f[1], f[2], 0>>, 0) :
            g \in {x \in Geoms : x.id = 1}, nb \in 1..MaxNumBlocks,
            f \in {<<1, 0>>, <<0, 1>>}}
    \cup {Launch(g, 1, 1, 0, <<1, 1, 0>>, 0) : g \in {x \in Geoms : x.id = 1}}

\* the writer against a compute stage that only produces
WriterLaunches ==
    {Launch(g, 0, b, 0, <<0, 0, fo>>, 1) :
        g \in Geoms, b \in 1..MaxBatch, fo \in {0, 1}}

\* reader, compute stage and writer together
Launches ==
    {Launch(g, nb, b, 0, <<0, 0, 0>>, 1) :
        g \in {x \in Geoms : x.id = 1}, nb \in 1..MaxNumBlocks, b \in 1..MaxBatch}
    \cup {Launch(g, 1, 1, 0, f, 1) :
            g \in {x \in Geoms : x.id = 1}, f \in {<<1, 0, 1>>, <<0, 1, 0>>}}
    \cup {Launch(g, 1, 1, 0, <<0, 0, 0>>, 1) : g \in Geoms}

\* the launches followed to their end under fairness: the most blocks and
\* the most batches of geometry 1, and one block of one batch in every
\* geometry and with compact operands
LiveLaunches ==
    {Launch(g, MaxNumBlocks, 1, 0, <<0, 0, 0>>, 1) : g \in {x \in Geoms : x.id = 1}}
    \cup {Launch(g, 1, MaxBatch, 0, <<0, 0, 0>>, 1) : g \in {x \in Geoms : x.id = 1}}
    \cup {Launch(g, 1, 1, 0, f, 1) :
            g \in {x \in Geoms : x.id = 1}, f \in {<<1, 0, 1>>, <<0, 1, 0>>}}
    \cup {Launch(g, 1, 1, 0, <<0, 0, 0>>, 1) : g \in Geoms}

\* what is added to the tile-count arguments (in0_block_num_tiles and
\* in1_block_num_tiles, out_subblock_tile_count) of a launch
CountDeltas == {<<0, 0>>, <<1, 1>>, <<1, 0>>, <<0, 1>>}
ShortDeltas == {<<-1, -1>>, <<-1, 0>>, <<0, -1>>}

\* launches whose tile counts need not be height times width: counts at
\* least that in geometries 1 and 2 (compact tensors among them), and counts
\* also one less in the single block and subblock of geometry 3
ParamLaunches ==
    {[l |-> Launch(g, 1, 1, 0, <<1, 1, 1>>, 1), d |-> <<1, 1>>] :
        g \in {x \in Geoms : x.id = 1}} \cup
    {[l |-> Launch(g, nb, 1, 0, <<0, 0, 0>>, 1), d |-> d] :
        g \in {x \in Geoms : x.id # 3}, nb \in 1..MaxNumBlocks, d \in CountDeltas}
    \cup {[l |-> Launch(g, 1, 1, 0, <<0, 0, 0>>, 1), d |-> d] :
            g \in {x \in Geoms : x.id = 3}, d \in CountDeltas \cup ShortDeltas}

(***************************************************************************)
(* The tensor store                                                        *)
(***************************************************************************)
\* compact sample tile k
CompactSample(k) ==
    CompactTile([g \in 1..NumGroups |->
                    [e |-> 125 + ((k + g) % 4), p |-> 1 + ((k + 2 * g) % 3)]])

\* tile tile_id of operand c, as the tensor accessor s0 / s1 delivers it
DramTile(c, tile_id) ==
    LET flag == IF c = cb_id_in0 THEN rargs.in0_is_mxfp4 ELSE rargs.in1_is_mxfp4
    IN  IF flag # 0 THEN CompactSample(tile_id + c) ELSE Fp32Tile(tile_id + c)

\* tile n produced by the compute stage
ComputedTile(n) == Fp32Tile(n + 2)

(***************************************************************************)
(* Log entries                                                             *)
(***************************************************************************)
Ev(op, c, n, tile, slot) == [op |-> op, cb |-> c, n |-> n, tile |-> tile, slot |-> slot]

(***************************************************************************)
(* Reader: kernel_main of reader_bmm_tile_layout.cpp                       *)
(***************************************************************************)
\* lines 94-96: the state on entry to the first block of batch 0
ReaderStart(a) ==
    [pc |-> IF a.batch > 0 /\ a.num_blocks > 0 THEN "reserve0" ELSE "done",
     b |-> 0, block |-> 0, h |-> 0, w |-> 0,
     in0_tensor_start_tile_id |-> a.in0_tensor_start_tile_id,
     in1_tensor_start_tile_id |-> a.in1_tensor_start_tile_id,
     in0_tensor_current_block_start_tile_id |-> a.in0_tensor_start_tile_id,
     in1_tensor_current_block_start_tile_id |-> a.in1_tensor_start_tile_id,
     in0_tensor_row_start_tile_id |-> 0,
     in1_tensor_row_start_tile_id |-> 0,
     in0_tensor_tile_id |-> 0,
     in1_tensor_tile_id |-> 0,
     l1_write_addr_in0 |-> 0,
     l1_write_addr_in1 |-> 0]

\* ReaderReserve0 reserving one row of the block, in0_block_w tiles
ReaderReserve0OneRow ==
    /\ reader.pc = "reserve0"
    /\ CanReserve(cb[cb_id_in0], rargs.in0_block_w)
    /\ cb' = [cb EXCEPT ![cb_id_in0] = cb_reserve_back(@, rargs.in0_block_w)]
    /\ rlog' = Append(rlog, Ev("reserve", cb_id_in0, rargs.in0_block_w, 0, cb[cb_id_in0].wr))
    /\ reader' = [reader EXCEPT !.pc = "reserve1"]
    /\ UNCHANGED <<codec, rargs, wargs, writer, compute, l1, rd_inflight, wr_inflight, wlog, decoded>>

\* line 98
ReaderReserve0 ==
    /\ reader.pc = "reserve0"
    /\ CanReserve(cb[cb_id_in0], rargs.in0_block_num_tiles)
    /\ cb' = [cb EXCEPT ![cb_id_in0] = cb_reserve_back(@, rargs.in0_block_num_tiles)]
    /\ rlog' = Append(rlog, Ev("reserve", cb_id_in0, rargs.in0_block_num_tiles, 0, cb[cb_id_in0].wr))
    /\ reader' = [reader EXCEPT !.pc = "reserve1"]
    /\ UNCHANGED <<codec, rargs, wargs, writer, compute, l1, rd_inflight, wr_inflight, wlog, decoded>>

\* lines 99-106: the second reservation, the write pointers and the entry
\* into the in0 loops (block_h and block_w are at least 1)
ReaderReserve1 ==
    /\ reader.pc = "reserve1"
    /\ CanReserve(cb[cb_id_in1], rargs.in1_block_num_tiles)
    /\ cb' = [cb EXCEPT ![cb_id_in1] = cb_reserve_back(@, rargs.in1_block_num_tiles)]
    /\ rlog' = Append(rlog, Ev("reserve", cb_id_in1, rargs.in1_block_num_tiles, 0, cb[cb_id_in1].wr))
    /\ reader' = [reader EXCEPT
            !.pc = "in0_read",
            !.l1_write_addr_in0 = get_write_ptr(cb[cb_id_in0]),
            !.l1_write_addr_in1 = get_write_ptr(cb[cb_id_in1]),
            !.in0_tensor_row_start_tile_id = reader.in0_tensor_current_block_start_tile_id,
            !.in0_tensor_tile_id = reader.in0_tensor_current_block_start_tile_id,
            !.h = 0, !.w = 0]
    /\ UNCHANGED <<codec, rargs, wargs, writer, compute, l1, rd_inflight, wr_inflight, wlog, decoded>>

\* AdvanceIn0 with the row start advanced by the column stride
AdvanceIn0RowByStrideW(r) ==
    LET row == r.in0_tensor_row_start_tile_id + rargs.in0_tensor_stride_w
    IN  IF r.w + 1 < rargs.in0_block_w
        THEN [r EXCEPT !.pc = "in0_read",
                       !.l1_write_addr_in0 = @ + 1,
                       !.in0_tensor_tile_id = @ + rargs.in0_tensor_stride_w,
                       !.w = @ + 1]
        ELSE IF r.h + 1 < rargs.in0_block_h
        THEN [r EXCEPT !.pc = "in0_read",
                       !.l1_write_addr_in0 = @ + 1,
                       !.in0_tensor_row_start_tile_id = row,
                       !.in0_tensor_tile_id = row,
                       !.h = @ + 1, !.w = 0]
        ELSE [r EXCEPT !.pc = "in1_read",
                       !.l1_write_addr_in0 = @ + 1,
                       !.in0_tensor_tile_id = @ + rargs.in0_tensor_stride_w,
                       !.in0_tensor_row_start_tile_id = row,
                       !.in0_tensor_current_block_start_tile_id =
                            @ + rargs.in0_tensor_next_block_stride,
                       !.in1_tensor_row_start_tile_id = r.in1_tensor_current_block_start_tile_id,
                       !.in1_tensor_tile_id = r.in1_tensor_current_block_start_tile_id,
                       !.h = 0, !.w = 0]

\* lines 117-124: the end of one in0 tile, and of the row and of the in0
\* loops when it is their last
AdvanceIn0(r) ==
    LET row == r.in0_tensor_row_start_tile_id + rargs.in0_tensor_stride_h
    IN  IF r.w + 1 < rargs.in0_block_w
        THEN [r EXCEPT !.pc = "in0_read",
                       !.l1_write_addr_in0 = @ + 1,
                       !.in0_tensor_tile_id = @ + rargs.in0_tensor_stride_w,
                       !.w = @ + 1]
        ELSE IF r.h + 1 < rargs.in0_block_h
        THEN [r EXCEPT !.pc = "in0_read",
                       !.l1_write_addr_in0 = @ + 1,
                       !.in0_tensor_row_start_tile_id = row,
                       !.in0_tensor_tile_id = row,
                       !.h = @ + 1, !.w = 0]
        ELSE [r EXCEPT !.pc = "in1_read",
                       !.l1_write_addr_in0 = @ + 1,
                       !.in0_tensor_tile_id = @ + rargs.in0_tensor_stride_w,
                       !.in0_tensor_row_start_tile_id = row,
                       !.in0_tensor_current_block_start_tile_id =
                            @ + rargs.in0_tensor_next_block_stride,
                       !.in1_tensor_row_start_tile_id = r.in1_tensor_current_block_start_tile_id,
                       !.in1_tensor_tile_id = r.in1_tensor_current_block_start_tile_id,
                       !.h = 0, !.w = 0]

\* line 108, and lines 117-118 when in0 is not compact
ReaderIn0Read ==
    /\ reader.pc = "in0_read"
    /\ rd_inflight' = rd_inflight \cup
            {[cb |-> cb_id_in0, slot |-> reader.l1_write_addr_in0,
              tile_id |-> reader.in0_tensor_tile_id]}
    /\ rlog' = Append(rlog, Ev("read", cb_id_in0, 1, reader.in0_tensor_tile_id,
                               reader.l1_write_addr_in0))
    /\ reader' = IF rargs.in0_is_mxfp4 # 0
                 THEN [reader EXCEPT !.pc = "in0_convert"]
                 ELSE AdvanceIn0(reader)
    /\ UNCHANGED <<codec, rargs, wargs, writer, compute, cb, l1, wr_inflight, wlog, decoded>>

\* lines 111-118: decode in place, source and destination the same slot
ReaderIn0Convert ==
    /\ reader.pc = "in0_convert"
    /\ l1' = [l1 EXCEPT ![cb_id_in0][reader.l1_write_addr_in0] =
                convert_mxfp4_to_fp32_tile(@, 0, 0, TileElements)]
    /\ decoded' = decoded \cup {<<cb_id_in0, reader.l1_write_addr_in0>>}
    /\ reader' = AdvanceIn0(reader)
    /\ UNCHANGED <<codec, rargs, wargs, writer, compute, cb, rd_inflight, wr_inflight, rlog, wlog>>

\* lines 137-142: the end of one in1 tile, and of the row and of the in1
\* loops when it is their last
AdvanceIn1(r) ==
    LET row == r.in1_tensor_row_start_tile_id + rargs.in1_tensor_stride_h
    IN  IF r.w + 1 < rargs.in1_block_w
        THEN [r EXCEPT !.pc = "in1_read",
                       !.l1_write_addr_in1 = @ + 1,
                       !.in1_tensor_tile_id = @ + rargs.in1_tensor_stride_w,
                       !.w = @ + 1]
        ELSE IF r.h + 1 < rargs.in1_block_h
        THEN [r EXCEPT !.pc = "in1_read",
                       !.l1_write_addr_in1 = @ + 1,
                       !.in1_tensor_row_start_tile_id = row,
                       !.in1_tensor_tile_id = row,
                       !.h = @ + 1, !.w = 0]
        ELSE [r EXCEPT !.pc = "barrier",
                       !.l1_write_addr_in1 = @ + 1,
                       !.in1_tensor_tile_id = @ + rargs.in1_tensor_stride_w,
                       !.in1_tensor_row_start_tile_id = row,
                       !.in1_tensor_current_block_start_tile_id =
                            @ + rargs.in1_tensor_next_block_stride,
                       !.h = 0, !.w = 0]

\* ReaderIn1Read with the decode of line 131 taken whatever in1_is_mxfp4 is
ReaderIn1ReadAlwaysConvert ==
    /\ reader.pc = "in1_read"
    /\ rd_inflight' = rd_inflight \cup
            {[cb |-> cb_id_in1, slot |-> reader.l1_write_addr_in1,
              tile_id |-> reader.in1_tensor_tile_id]}
    /\ rlog' = Append(rlog, Ev("read", cb_id_in1, 1, reader.in1_tensor_tile_id,
                               reader.l1_write_addr_in1))
    /\ reader' = [reader EXCEPT !.pc = "in1_convert"]
    /\ UNCHANGED <<codec, rargs, wargs, writer, compute, cb, l1, wr_inflight, wlog, decoded>>

\* line 128, and lines 137-138 when in1 is not compact
ReaderIn1Read ==
    /\ reader.pc = "in1_read"
    /\ rd_inflight' = rd_inflight \cup
            {[cb |-> cb_id_in1, slot |-> reader.l1_write_addr_in1,
              tile_id |-> reader.in1_tensor_tile_id]}
    /\ rlog' = Append(rlog, Ev("read", cb_id_in1, 1, reader.in1_tensor_tile_id,
                               reader.l1_write_addr_in1))
    /\ reader' = IF rargs.in1_is_mxfp4 # 0
                 THEN [reader EXCEPT !.pc = "in1_convert"]
                 ELSE AdvanceIn1(reader)
    /\ UNCHANGED <<codec, rargs, wargs, writer, compute, cb, l1, wr_inflight, wlog, decoded>>

\* lines 131-138
ReaderIn1Convert ==
    /\ reader.pc = "in1_convert"
    /\ l1' = [l1 EXCEPT ![cb_id_in1][reader.l1_write_addr_in1] =
                convert_mxfp4_to_fp32_tile(@, 0, 0, TileElements)]
    /\ decoded' = decoded \cup {<<cb_id_in1, reader.l1_write_addr_in1>>}
    /\ reader' = AdvanceIn1(reader)
    /\ UNCHANGED <<codec, rargs, wargs, writer, compute, cb, rd_inflight, wr_inflight, rlog, wlog>>

\* ReaderBarrier without the wait: the push follows the last read at once
ReaderBarrierNoWait ==
    /\ reader.pc = "barrier"
    /\ rlog' = Append(rlog, Ev("barrier", cb_id_in0, 0, 0, 0))
    /\ reader' = [reader EXCEPT !.pc = "push0"]
    /\ UNCHANGED <<codec, rargs, wargs, writer, compute, cb, l1, rd_inflight, wr_inflight, wlog, decoded>>

\* line 144: noc_async_read_barrier returns once every read issued has completed
ReaderBarrier ==
    /\ reader.pc = "barrier"
    /\ rd_inflight = {}
    /\ rlog' = Append(rlog, Ev("barrier", cb_id_in0, 0, 0, 0))
    /\ reader' = [reader EXCEPT !.pc = "push0"]
    /\ UNCHANGED <<codec, rargs, wargs, writer, compute, cb, l1, rd_inflight, wr_inflight, wlog, decoded>>

\* ReaderPush0 pushing one row of the block, in0_block_w tiles
ReaderPush0OneRow ==
    /\ reader.pc = "push0"
    /\ cb' = [cb EXCEPT ![cb_id_in0] = cb_push_back(@, rargs.in0_block_w)]
    /\ rlog' = Append(rlog, Ev("push", cb_id_in0, rargs.in0_block_w, 0, cb[cb_id_in0].wr))
    /\ reader' = [reader EXCEPT !.pc = "push1"]
    /\ UNCHANGED <<codec, rargs, wargs, writer, compute, l1, rd_inflight, wr_inflight, wlog, decoded>>

\* line 146
ReaderPush0 ==
    /\ reader.pc = "push0"
    /\ cb' = [cb EXCEPT ![cb_id_in0] = cb_push_back(@, rargs.in0_block_num_tiles)]
    /\ rlog' = Append(rlog, Ev("push", cb_id_in0, rargs.in0_block_num_tiles, 0, cb[cb_id_in0].wr))
    /\ reader' = [reader EXCEPT !.pc = "push1"]
    /\ UNCHANGED <<codec, rargs, wargs, writer, compute, l1, rd_inflight, wr_inflight, wlog, decoded>>

\* ReaderBatchEnd with the in1 start advanced whatever bcast_B is
ReaderBatchEndNoBcast(r) ==
    LET in1_start == r.in1_tensor_start_tile_id + rargs.KtNt
        in0_start == r.in0_tensor_start_tile_id + rargs.MtKt
    IN  [r EXCEPT !.pc = IF r.b + 1 < rargs.batch THEN "reserve0" ELSE "done",
                  !.b = @ + 1, !.block = 0,
                  !.in0_tensor_start_tile_id = in0_start,
                  !.in1_tensor_start_tile_id = in1_start,
                  !.in0_tensor_current_block_start_tile_id =
                        IF r.b + 1 < rargs.batch THEN in0_start ELSE @,
                  !.in1_tensor_current_block_start_tile_id =
                        IF r.b + 1 < rargs.batch THEN in1_start ELSE @]

\* lines 149-153 and 94-96: the end of a batch and the start of the next
ReaderBatchEnd(r) ==
    LET in1_start == IF rargs.bcast_B = 0
                     THEN r.in1_tensor_start_tile_id + rargs.KtNt
                     ELSE r.in1_tensor_start_tile_id
        in0_start == r.in0_tensor_start_tile_id + rargs.MtKt
    IN  [r EXCEPT !.pc = IF r.b + 1 < rargs.batch THEN "reserve0" ELSE "done",
                  !.b = @ + 1, !.block = 0,
                  !.in0_tensor_start_tile_id = in0_start,
                  !.in1_tensor_start_tile_id = in1_start,
                  !.in0_tensor_current_block_start_tile_id =
                        IF r.b + 1 < rargs.batch THEN in0_start ELSE @,
                  !.in1_tensor_current_block_start_tile_id =
                        IF r.b + 1 < rargs.batch THEN in1_start ELSE @]

\* ReaderPush1 without the cb_push_back of in1
ReaderPush1NoRelease ==
    /\ reader.pc = "push1"
    /\ decoded' = {}
    /\ reader' = IF reader.block + 1 < rargs.num_blocks
                 THEN [reader EXCEPT !.pc = "reserve0", !.block = @ + 1]
                 ELSE ReaderBatchEnd(reader)
    /\ UNCHANGED <<codec, rargs, wargs, writer, compute, cb, l1, rd_inflight, wr_inflight,
                   rlog, wlog>>

\* line 147, the end of the block loop body and, after the last block of a
\* batch, lines 149-153
ReaderPush1 ==
    /\ reader.pc = "push1"
    /\ cb' = [cb EXCEPT ![cb_id_in1] = cb_push_back(@, rargs.in1_block_num_tiles)]
    /\ rlog' = Append(rlog, Ev("push", cb_id_in1, rargs.in1_block_num_tiles, 0, cb[cb_id_in1].wr))
    /\ decoded' = {}
    /\ reader' = IF reader.block + 1 < rargs.num_blocks
                 THEN [reader EXCEPT !.pc = "reserve0", !.block = @ + 1]
                 ELSE ReaderBatchEnd(reader)
    /\ UNCHANGED <<codec, rargs, wargs, writer, compute, l1, rd_inflight, wr_inflight, wlog>>

(***************************************************************************)
(* The transfer engine, read side: a transfer issued by noc_async_read_tile *)
(* lands in its slot at any later moment, in any order.                    *)
(***************************************************************************)
ReadComplete ==
    \E t \in rd_inflight :
        /\ l1' = [l1 EXCEPT ![t.cb][t.slot] = DramTile(t.cb, t.tile_id)]
        /\ rd_inflight' = rd_inflight \ {t}
        /\ UNCHANGED <<codec, rargs, wargs, reader, writer, compute, cb, wr_inflight, rlog, wlog, decoded>>


(***************************************************************************)
(* The compute stage: per batch it consumes num_blocks blocks of both      *)
(* operands, then produces every output subblock.                          *)
(***************************************************************************)
\* subblocks per batch
NumSubblocks == wargs.out_num_subblocks_h * wargs.out_num_subblocks_w

\* the compute stage at the start of a batch
ComputeBatch(b, produced) ==
    [pc |-> IF b >= rargs.batch THEN "done"
            ELSE IF rargs.num_blocks > 0 THEN "wait_in"
            ELSE IF NumSubblocks > 0 THEN "reserve_out"
            ELSE "done",
     b |-> b, block |-> 0, sb |-> 0, produced |-> produced]

ComputeWaitIn ==
    /\ compute.pc = "wait_in"
    /\ CanWait(cb[cb_id_in0], rargs.in0_block_num_tiles)
    /\ CanWait(cb[cb_id_in1], rargs.in1_block_num_tiles)
    /\ cb' = [cb EXCEPT ![cb_id_in0] = cb_wait_front(@, rargs.in0_block_num_tiles),
                        ![cb_id_in1] = cb_wait_front(@, rargs.in1_block_num_tiles)]
    /\ compute' = [compute EXCEPT !.pc = "pop_in"]
    /\ UNCHANGED <<codec, rargs, wargs, reader, writer, l1, rd_inflight, wr_inflight, rlog, wlog, decoded>>

\* the tiles of a popped range are dead: they are cleared, so that states are
\* not told apart by data nothing will read
Cleared(c, tiles, n) ==
    [s \in 0..(c.cap - 1) |->
        IF s \in Range(c, c.rd, n) THEN ZeroMem(TileElements) ELSE tiles[s]]

ComputePopIn ==
    /\ compute.pc = "pop_in"
    /\ cb' = [cb EXCEPT ![cb_id_in0] = cb_pop_front(@, rargs.in0_block_num_tiles),
                        ![cb_id_in1] = cb_pop_front(@, rargs.in1_block_num_tiles)]
    /\ l1' = [l1 EXCEPT
                ![cb_id_in0] = Cleared(cb[cb_id_in0], @, rargs.in0_block_num_tiles),
                ![cb_id_in1] = Cleared(cb[cb_id_in1], @, rargs.in1_block_num_tiles)]
    /\ compute' = IF compute.block + 1 < rargs.num_blocks
                  THEN [compute EXCEPT !.pc = "wait_in", !.block = @ + 1]
                  ELSE IF NumSubblocks > 0
                  THEN [compute EXCEPT !.pc = "reserve_out", !.block = 0, !.sb = 0]
                  ELSE ComputeBatch(compute.b + 1, compute.produced)
    /\ UNCHANGED <<codec, rargs, wargs, reader, writer, rd_inflight, wr_inflight, rlog, wlog, decoded>>

ComputeReserveOut ==
    /\ compute.pc = "reserve_out"
    /\ CanReserve(cb[cb_id_out0], wargs.out_subblock_tile_count)
    /\ cb' = [cb EXCEPT ![cb_id_out0] = cb_reserve_back(@, wargs.out_subblock_tile_count)]
    /\ compute' = [compute EXCEPT !.pc = "push_out"]
    /\ UNCHANGED <<codec, rargs, wargs, reader, writer, l1, rd_inflight, wr_inflight, rlog, wlog, decoded>>

ComputePushOut ==
    /\ compute.pc = "push_out"
    /\ LET c == cb[cb_id_out0]
           n == wargs.out_subblock_tile_count
       IN  /\ l1' = [l1 EXCEPT ![cb_id_out0] =
                        [s \in 0..(c.cap - 1) |->
                            IF s \in Range(c, c.wr, n)
                            THEN ComputedTile(compute.produced + ((s - c.wr) % c.cap))
                            ELSE @[s]]]
           /\ cb' = [cb EXCEPT ![cb_id_out0] = cb_push_back(@, n)]
           /\ compute' =
                IF compute.sb + 1 < NumSubblocks
                THEN [compute EXCEPT !.pc = "reserve_out", !.sb = @ + 1,
                                     !.produced = @ + n]
                ELSE ComputeBatch(compute.b + 1, compute.produced + n)
    /\ UNCHANGED <<codec, rargs, wargs, reader, writer, rd_inflight, wr_inflight, rlog, wlog, decoded>>

(***************************************************************************)
(* Writer: kernel_main of writer_bmm_tile_layout.cpp                       *)
(***************************************************************************)
\* where a tile's iteration starts: at the encode when the output is compact
TilePc == IF wargs.out_is_mxfp4 # 0 THEN "encode" ELSE "write"

\* lines 86-91: the state on entry to the first subblock of batch 0
WriterStart(a) ==
    [pc |-> IF a.batch > 0 /\ a.out_num_subblocks_h > 0 /\ a.out_num_subblocks_w > 0
            THEN "wait" ELSE "done",
     b |-> 0, sbh |-> 0, sbw |-> 0, h |-> 0, w |-> 0,
     out_tensor_start_tile_id |-> a.out_tensor_start_tile_id,
     out_tensor_sbh_start_tile_id |-> a.out_tensor_start_tile_id,
     out_tensor_sbw_start_tile_id |-> a.out_tensor_start_tile_id,
     out_tensor_sb_row_start_tile_id |-> 0,
     out_tensor_tile_id |-> 0,
     l1_read_addr |-> 0,
     mxfp4_buffer |-> ZeroMem(0)]

\* WriterWait without cb_wait_front: the tiles are read whether filled or not
WriterWaitSkipped ==
    /\ writer.pc = "wait"
    /\ wlog' = Append(wlog, Ev("wait", cb_id_out0, wargs.out_subblock_tile_count, 0,
                               cb[cb_id_out0].rd))
    /\ writer' = [writer EXCEPT
            !.pc = TilePc,
            !.out_tensor_sb_row_start_tile_id = writer.out_tensor_sbw_start_tile_id,
            !.out_tensor_tile_id = writer.out_tensor_sbw_start_tile_id,
            !.l1_read_addr = get_read_ptr(cb[cb_id_out0]),
            !.h = 0, !.w = 0]
    /\ UNCHANGED <<codec, rargs, wargs, reader, compute, cb, l1, rd_inflight, wr_inflight, rlog, decoded>>

\* lines 91-97: wait for the subblock, take the read pointer, enter the loops
\* (out_subblock_h and out_subblock_w are at least 1)
WriterWait ==
    /\ writer.pc = "wait"
    /\ CanWait(cb[cb_id_out0], wargs.out_subblock_tile_count)
    /\ cb' = [cb EXCEPT ![cb_id_out0] = cb_wait_front(@, wargs.out_subblock_tile_count)]
    /\ wlog' = Append(wlog, Ev("wait", cb_id_out0, wargs.out_subblock_tile_count, 0,
                               cb[cb_id_out0].rd))
    /\ writer' = [writer EXCEPT
            !.pc = TilePc,
            !.out_tensor_sb_row_start_tile_id = writer.out_tensor_sbw_start_tile_id,
            !.out_tensor_tile_id = writer.out_tensor_sbw_start_tile_id,
            !.l1_read_addr = get_read_ptr(cb[cb_id_out0]),
            !.h = 0, !.w = 0]
    /\ UNCHANGED <<codec, rargs, wargs, reader, compute, l1, rd_inflight, wr_inflight, rlog, decoded>>

\* lines 101-107: encode the staged tile into the local mxfp4_buffer, an
\* uninitialised array of tile_elements / 6 words
WriterEncode ==
    /\ writer.pc = "encode"
    /\ \E g \in Garbage(TileElements \div 6) :
          \E mem \in {Concat(l1[cb_id_out0][writer.l1_read_addr], TileElements,
                              g, TileElements \div 6)} :
          \E res \in {convert_fp32_to_mxfp4_tile(mem, 0, TileElements, TileElements)} :
              writer' = [writer EXCEPT
                            !.pc = "write",
                            !.mxfp4_buffer = Slice(res, TileElements, TileElements \div 6)]
    /\ UNCHANGED <<codec, rargs, wargs, reader, compute, cb, l1, rd_inflight, wr_inflight, rlog, wlog, decoded>>

\* AdvanceOut with the row start advanced by the column stride
AdvanceOutRowByStrideW(r) ==
    LET row == r.out_tensor_sb_row_start_tile_id + wargs.out_tensor_stride_w
    IN  IF r.w + 1 < wargs.out_subblock_w
        THEN [r EXCEPT !.pc = TilePc,
                       !.l1_read_addr = @ + 1,
                       !.out_tensor_tile_id = @ + wargs.out_tensor_stride_w,
                       !.w = @ + 1,
                       !.mxfp4_buffer = ZeroMem(0)]
        ELSE IF r.h + 1 < wargs.out_subblock_h
        THEN [r EXCEPT !.pc = TilePc,
                       !.l1_read_addr = @ + 1,
                       !.out_tensor_sb_row_start_tile_id = row,
                       !.out_tensor_tile_id = row,
                       !.h = @ + 1, !.w = 0,
                       !.mxfp4_buffer = ZeroMem(0)]
        ELSE [r EXCEPT !.pc = "barrier",
                       !.l1_read_addr = @ + 1,
                       !.out_tensor_tile_id = @ + wargs.out_tensor_stride_w,
                       !.out_tensor_sb_row_start_tile_id = row,
                       !.h = 0, !.w = 0,
                       !.mxfp4_buffer = ZeroMem(0)]

\* lines 115-120: the end of one tile, and of the row and of the tile loops
\* when it is their last; mxfp4_buffer goes out of scope
AdvanceOut(r) ==
    LET row == r.out_tensor_sb_row_start_tile_id + wargs.out_tensor_stride_h
    IN  IF r.w + 1 < wargs.out_subblock_w
        THEN [r EXCEPT !.pc = TilePc,
                       !.l1_read_addr = @ + 1,
                       !.out_tensor_tile_id = @ + wargs.out_tensor_stride_w,
                       !.w = @ + 1,
                       !.mxfp4_buffer = ZeroMem(0)]
        ELSE IF r.h + 1 < wargs.out_subblock_h
        THEN [r EXCEPT !.pc = TilePc,
                       !.l1_read_addr = @ + 1,
                       !.out_tensor_sb_row_start_tile_id = row,
                       !.out_tensor_tile_id = row,
                       !.h = @ + 1, !.w = 0,
                       !.mxfp4_buffer = ZeroMem(0)]
        ELSE [r EXCEPT !.pc = "barrier",
                       !.l1_read_addr = @ + 1,
                       !.out_tensor_tile_id = @ + wargs.out_tensor_stride_w,
                       !.out_tensor_sb_row_start_tile_id = row,
                       !.h = 0, !.w = 0,
                       !.mxfp4_buffer = ZeroMem(0)]

\* the transfer issued for the current tile: line 111 sends mxfp4_size bytes
\* starting at l1_read_addr, line 113 sends the whole tile at l1_read_addr
WriteTransfer ==
    LET nwords == IF wargs.out_is_mxfp4 # 0
                  THEN (TileElements \div 32) * 5
                  ELSE TileElements
    IN  [tile_id |-> writer.out_tensor_tile_id,
         slot |-> writer.l1_read_addr,
         nwords |-> nwords,
         data |-> Slice(l1[cb_id_out0][writer.l1_read_addr], 0, nwords)]

\* lines 109-119
WriterWrite ==
    /\ writer.pc = "write"
    /\ wr_inflight' = wr_inflight \cup {WriteTransfer}
    /\ wlog' = Append(wlog, Ev("write", cb_id_out0, WriteTransfer.nwords,
                               writer.out_tensor_tile_id, writer.l1_read_addr))
    /\ writer' = AdvanceOut(writer)
    /\ UNCHANGED <<codec, rargs, wargs, reader, compute, cb, l1, rd_inflight, rlog, decoded>>

\* WriterBarrier without the wait: the pop follows the last write at once
WriterBarrierNoWait ==
    /\ writer.pc = "barrier"
    /\ wlog' = Append(wlog, Ev("barrier", cb_id_out0, 0, 0, 0))
    /\ writer' = [writer EXCEPT !.pc = "pop"]
    /\ UNCHANGED <<codec, rargs, wargs, reader, compute, cb, l1, rd_inflight, wr_inflight, rlog, decoded>>

\* line 122: noc_async_write_barrier returns once every write issued has completed
WriterBarrier ==
    /\ writer.pc = "barrier"
    /\ wr_inflight = {}
    /\ wlog' = Append(wlog, Ev("barrier", cb_id_out0, 0, 0, 0))
    /\ writer' = [writer EXCEPT !.pc = "pop"]
    /\ UNCHANGED <<codec, rargs, wargs, reader, compute, cb, l1, rd_inflight, wr_inflight, rlog, decoded>>

\* lines 124-128 and 87-91: the end of a subblock, of a subblock row and of a batch
NextSubblock(r) ==
    LET sbw_start == r.out_tensor_sbw_start_tile_id + wargs.out_tensor_next_subblock_stride_w
        sbh_start == r.out_tensor_sbh_start_tile_id + wargs.out_tensor_next_subblock_stride_h
        start == r.out_tensor_start_tile_id + wargs.MtNt
    IN  IF r.sbw + 1 < wargs.out_num_subblocks_w
        THEN [r EXCEPT !.pc = "wait", !.sbw = @ + 1,
                       !.out_tensor_sbw_start_tile_id = sbw_start]
        ELSE IF r.sbh + 1 < wargs.out_num_subblocks_h
        THEN [r EXCEPT !.pc = "wait", !.sbh = @ + 1, !.sbw = 0,
                       !.out_tensor_sbh_start_tile_id = sbh_start,
                       !.out_tensor_sbw_start_tile_id = sbh_start]
        ELSE IF r.b + 1 < wargs.batch
        THEN [r EXCEPT !.pc = "wait", !.b = @ + 1, !.sbh = 0, !.sbw = 0,
                       !.out_tensor_start_tile_id = start,
                       !.out_tensor_sbh_start_tile_id = start,
                       !.out_tensor_sbw_start_tile_id = start]
        ELSE [r EXCEPT !.pc = "done", !.b = @ + 1, !.sbh = 0, !.sbw = 0,
                       !.out_tensor_start_tile_id = start,
                       !.out_tensor_sbh_start_tile_id = sbh_start,
                       !.out_tensor_sbw_start_tile_id = sbw_start]

\* line 123 and the loop ends after it
WriterPop ==
    /\ writer.pc = "pop"
    /\ cb' = [cb EXCEPT ![cb_id_out0] = cb_pop_front(@, wargs.out_subblock_tile_count)]
    /\ wlog' = Append(wlog, Ev("pop", cb_id_out0, wargs.out_subblock_tile_count, 0,
                               cb[cb_id_out0].rd))
    /\ writer' = NextSubblock(writer)
    /\ UNCHANGED <<codec, rargs, wargs, reader, compute, l1, rd_inflight, wr_inflight, rlog, decoded>>

(***************************************************************************)
(* The transfer engine, write side: a transfer issued by the writer        *)
(* completes at any later moment, in any order.                            *)
(***************************************************************************)
WriteComplete ==
    \E t \in wr_inflight :
        /\ wr_inflight' = wr_inflight \ {t}
        /\ UNCHANGED <<codec, rargs, wargs, reader, writer, compute, cb, l1, rd_inflight, rlog, wlog, decoded>>

(***************************************************************************)
(* One codec call on a tile, aliased and with a separate destination       *)
(***************************************************************************)
CodecIdle ==
    [phase |-> "idle", tile |-> ZeroMem(0), inplace |-> ZeroMem(0), separate |-> ZeroMem(0),
     zeroed |-> ZeroMem(0), prior |-> ZeroMem(0), aliased |-> ZeroMem(0)]

\* convert_fp32_to_mxfp4_tile on tile with the destination a separate buffer
\* holding scratch: the compact tile left in the destination
EncodeInto(tile, scratch) ==
    Slice(convert_fp32_to_mxfp4_tile(
              Concat(tile, TileElements, scratch, CompactWords),
              0, TileElements, TileElements),
          TileElements, CompactWords)

\* convert_mxfp4_to_fp32_tile on a compact tile with the destination a
\* separate buffer holding scratch: the full-precision tile left there
DecodeInto(compact, n, scratch) ==
    Slice(convert_mxfp4_to_fp32_tile(
              Concat(compact, n, scratch, TileElements),
              0, n, TileElements),
          n, TileElements)

\* the call of reader lines 112-114 (source and destination the same tile),
\* and the same call with the destination a buffer after the source
CodecDecode ==
    /\ codec.phase = "compact"
    /\ \E scratch \in Garbage(TileElements) :
          codec' = [codec EXCEPT
            !.phase = "decoded",
            !.inplace = convert_mxfp4_to_fp32_tile(codec.tile, 0, 0, TileElements),
            !.separate = Slice(convert_mxfp4_to_fp32_tile(
                                   Concat(codec.tile, TileElements, scratch, TileElements),
                                   0, TileElements, TileElements),
                               TileElements, TileElements)]
    /\ UNCHANGED pipeVars

\* the decoded tile encoded again, into a zeroed buffer
CodecReencode ==
    /\ codec.phase = "decoded"
    /\ codec' = [codec EXCEPT
            !.phase = "reencoded",
            !.zeroed = EncodeInto(codec.separate, ZeroMem(CompactWords))]
    /\ UNCHANGED pipeVars

\* the call of writer line 107 on a full-precision tile: into a zeroed
\* buffer, into a buffer with prior contents (mxfp4_buffer of line 106 is not
\* initialised), and with the destination the source tile itself
CodecEncode ==
    /\ codec.phase = "fp32"
    /\ \E scratch \in Garbage(CompactWords) :
          codec' = [codec EXCEPT
            !.phase = "encoded",
            !.zeroed = EncodeInto(codec.tile, ZeroMem(CompactWords)),
            !.prior = EncodeInto(codec.tile, scratch),
            !.aliased = Slice(convert_fp32_to_mxfp4_tile(codec.tile, 0, 0, TileElements),
                              0, CompactWords)]
    /\ UNCHANGED pipeVars

\* the encoded tile decoded again, into a separate buffer
CodecRedecode ==
    /\ codec.phase = "encoded"
    /\ \E scratch \in Garbage(TileElements) :
          codec' = [codec EXCEPT
            !.phase = "redecoded",
            !.separate = DecodeInto(codec.zeroed, CompactWords, scratch)]
    /\ UNCHANGED pipeVars

(***************************************************************************)
(* Specifications                                                          *)
(***************************************************************************)
\* the state at launch with reader arguments ra and writer arguments wa,
\* every circular buffer holding blocks blocks (subblocks for the output)
PipeInitArgs(ra, wa, blocks) ==
    LET cap(c) == blocks * (CASE c = cb_id_in0 -> ra.in0_block_num_tiles
                                [] c = cb_id_in1 -> ra.in1_block_num_tiles
                                [] OTHER -> wa.out_subblock_tile_count)
    IN  /\ rargs = ra
        /\ wargs = wa
        /\ reader = ReaderStart(ra)
        /\ writer = WriterStart(wa)
        /\ compute = ComputeBatch(0, 0)
        /\ cb = [c \in CbIds |-> NewCb(cap(c))]
        /\ l1 = [c \in CbIds |-> [s \in 0..(cap(c) - 1) |-> ZeroMem(TileElements)]]
        /\ rd_inflight = {}
        /\ wr_inflight = {}
        /\ rlog = <<>>
        /\ wlog = <<>>
        /\ decoded = {}

PipeInitCap(launch, blocks) ==
    PipeInitArgs(ReaderArgs(launch.g, launch.nb, launch.batch, launch.bcast,
                            launch.f[1], launch.f[2]),
                 WriterArgs(launch.g, launch.batch, launch.f[3], launch.out),
                 blocks)

PipeInit(launch) == PipeInitCap(launch, CbBlocks)

Init ==
    /\ codec = CodecIdle
    /\ \E launch \in Launches : PipeInit(launch)

Next ==
    \/ ReaderReserve0 \/ ReaderReserve1
    \/ ReaderIn0Read \/ ReaderIn0Convert
    \/ ReaderIn1Read \/ ReaderIn1Convert
    \/ ReaderBarrier \/ ReaderPush0 \/ ReaderPush1
    \/ ReadComplete
    \/ ComputeWaitIn \/ ComputePopIn \/ ComputeReserveOut \/ ComputePushOut
    \/ WriterWait \/ WriterEncode \/ WriterWrite \/ WriterBarrier \/ WriterPop
    \/ WriteComplete

Spec == Init /\ [][Next]_vars

\* the launch whose pipeline state stands by while the codec runs alone
CodecLaunch ==
    CHOOSE l \in Launches : l.g.id = 1 /\ l.nb = 1 /\ l.batch = 1
                            /\ l.bcast = 0 /\ l.f = <<0, 0, 0>>

\* the codec alone, on every sample compact tile
InitCodec ==
    /\ codec \in [phase : {"compact"}, tile : CompactTiles,
                  inplace : {ZeroMem(0)}, separate : {ZeroMem(0)},
                  zeroed : {ZeroMem(0)}, prior : {ZeroMem(0)}, aliased : {ZeroMem(0)}]
    /\ PipeInit(CodecLaunch)

InitReader ==
    /\ codec = CodecIdle
    /\ \E launch \in ReaderLaunches : PipeInit(launch)

NextReader ==
    \/ ReaderReserve0 \/ ReaderReserve1
    \/ ReaderIn0Read \/ ReaderIn0Convert
    \/ ReaderIn1Read \/ ReaderIn1Convert
    \/ ReaderBarrier \/ ReaderPush0 \/ ReaderPush1
    \/ ReadComplete
    \/ ComputeWaitIn \/ ComputePopIn

SpecReader == InitReader /\ [][NextReader]_vars

InitWriter ==
    /\ codec = CodecIdle
    /\ \E launch \in WriterLaunches : PipeInit(launch)

NextWriter ==
    \/ ComputeReserveOut \/ ComputePushOut
    \/ WriterWait \/ WriterEncode \/ WriterWrite \/ WriterBarrier \/ WriterPop
    \/ WriteComplete

SpecWriter == InitWriter /\ [][NextWriter]_vars

\* the steps of each party
ReaderStep ==
    \/ ReaderReserve0 \/ ReaderReserve1
    \/ ReaderIn0Read \/ ReaderIn0Convert
    \/ ReaderIn1Read \/ ReaderIn1Convert
    \/ ReaderBarrier \/ ReaderPush0 \/ ReaderPush1

ComputeStep == ComputeWaitIn \/ ComputePopIn \/ ComputeReserveOut \/ ComputePushOut

WriterStep == WriterWait \/ WriterEncode \/ WriterWrite \/ WriterBarrier \/ WriterPop

\* the three parties run on processors of their own and the transfer engine
\* completes every transfer: each keeps taking steps while it can
Fairness ==
    /\ WF_vars(ReaderStep) /\ WF_vars(ReadComplete)
    /\ WF_vars(ComputeStep)
    /\ WF_vars(WriterStep) /\ WF_vars(WriteComplete)

\* the whole pipeline with circular buffers of 1 to CbBlocks blocks
InitLive ==
    /\ codec = CodecIdle
    /\ \E launch \in LiveLaunches : \E blocks \in 1..CbBlocks : PipeInitCap(launch, blocks)

SpecLive == InitLive /\ [][Next]_vars /\ Fairness

\* the whole pipeline over launches whose tile counts are arguments of their
\* own (get_arg_val 7, 13 and 8 of the writer)
InitParams ==
    /\ codec = CodecIdle
    /\ \E p \in ParamLaunches :
          LET ra == ReaderArgs(p.l.g, p.l.nb, p.l.batch, p.l.bcast, p.l.f[1], p.l.f[2])
              wa == WriterArgs(p.l.g, p.l.batch, p.l.f[3], p.l.out)
          IN  PipeInitArgs([ra EXCEPT !.in0_block_num_tiles = @ + p.d[1],
                                      !.in1_block_num_tiles = @ + p.d[1]],
                           [wa EXCEPT !.out_subblock_tile_count = @ + p.d[2]],
                           CbBlocks)

SpecParams == InitParams /\ [][Next]_vars

NextCodec == CodecDecode \/ CodecReencode

SpecCodec == InitCodec /\ [][NextCodec]_vars

\* the codec alone, on every sample full-precision tile
InitEncode ==
    /\ codec \in [phase : {"fp32"}, tile : Fp32GroupTiles,
                  inplace : {ZeroMem(0)}, separate : {ZeroMem(0)},
                  zeroed : {ZeroMem(0)}, prior : {ZeroMem(0)}, aliased : {ZeroMem(0)}]
    /\ PipeInit(CodecLaunch)

NextEncode == CodecEncode \/ CodecRedecode

SpecEncode == InitEncode /\ [][NextEncode]_vars


(***************************************************************************)
(* Properties                                                              *)
(***************************************************************************)
\* the compact form of a full-precision tile: the encode step with the
\* destination a zeroed buffer after the source
EncodedTile(tile) ==
    Slice(convert_fp32_to_mxfp4_tile(
              Concat(tile, TileElements, ZeroMem(CompactWords), CompactWords),
              0, TileElements, TileElements),
          TileElements, CompactWords)

\* C1: in the reader, decode runs on a slot only after the transfer into that
\* slot has completed: no slot that decode has run on still has its transfer
\* outstanding (so none lands after the decode either).
C1_DecodeAfterTransfer ==
    \A t \in rd_inflight : <<t.cb, t.slot>> \notin decoded

\* C2: decode with source and destination the same buffer gives the same
\* full-precision tile as decode into a separate destination buffer.
C2_AliasedDecodeMatchesSeparate ==
    codec.phase = "decoded" => codec.inplace = codec.separate

\* C3: when the output is compact, every transfer the writer issues carries
\* the compact encoding of the staged tile, (element_count / 32) * 5 words
\* long, addressed to the tile index of the traversal.
C3_TransferCarriesEncoding ==
    \A t \in wr_inflight :
        wargs.out_is_mxfp4 # 0 =>
            LET c == cb[cb_id_out0]
                k == (t.slot - c.rd) % c.cap
                h == k \div wargs.out_subblock_w
                w == k % wargs.out_subblock_w
            IN  /\ t.nwords = (TileElements \div MXFP4_BLOCK_SIZE) * 5
                /\ t.data = EncodedTile(l1[cb_id_out0][t.slot])
                /\ t.tile_id = writer.out_tensor_sbw_start_tile_id
                                + h * wargs.out_tensor_stride_h
                                + w * wargs.out_tensor_stride_w

\* C4: the reader releases a block (cb_push_back of in0 and in1) only after
\* every transfer issued for the block has completed: at the pushes nothing
\* is outstanding, and no outstanding transfer targets a released slot.
C4_PushAfterAllTransfers ==
    /\ reader.pc \in {"push0", "push1"} => rd_inflight = {}
    /\ \A t \in rd_inflight : cb[t.cb].st[t.slot] = "reserved_w"

\* a block of both operands has just been released in full, after transfers
\* of both operands were issued for it
C4_Witness ==
    /\ reader.pc = "reserve0"
    /\ reader.block = 1
    /\ rd_inflight = {}
    /\ \E i \in 1..Len(rlog) : rlog[i].op = "read" /\ rlog[i].cb = cb_id_in1
    /\ rlog[Len(rlog)].op = "push" /\ rlog[Len(rlog)].cb = cb_id_in1

\* C5: the writer reads a staged tile (encode, transfer) only inside a range
\* cb_wait_front has returned for, and pops the range only when every write
\* transfer issued from it has completed.
C5_WaitBeforeReadPopAfterBarrier ==
    /\ writer.pc \in {"encode", "write"} =>
            cb[cb_id_out0].st[writer.l1_read_addr] = "reserved_r"
    /\ \A t \in wr_inflight : cb[cb_id_out0].st[t.slot] = "reserved_r"
    /\ writer.pc = "pop" => wr_inflight = {}

\* a subblock has been written out and popped
C5_Witness ==
    /\ Len(wlog) > 0
    /\ wlog[Len(wlog)].op = "pop"
    /\ \E i \in 1..Len(wlog) : wlog[i].op = "write"
    /\ wr_inflight = {}


\* the slot states of all buffers, and the steps a slot may take
SlotStep == {<<"free", "reserved_w">>, <<"reserved_w", "filled">>,
             <<"filled", "reserved_r">>, <<"reserved_r", "free">>}

\* the producer touches only slots reserved for write, the consumer only slots
\* reserved for read
SlotAccessOk ==
    /\ \A t \in rd_inflight : cb[t.cb].st[t.slot] = "reserved_w"
    /\ reader.pc \in {"in0_read", "in0_convert"} =>
            cb[cb_id_in0].st[reader.l1_write_addr_in0] = "reserved_w"
    /\ reader.pc \in {"in1_read", "in1_convert"} =>
            cb[cb_id_in1].st[reader.l1_write_addr_in1] = "reserved_w"
    /\ compute.pc = "pop_in" =>
            /\ \A s \in Range(cb[cb_id_in0], cb[cb_id_in0].rd, rargs.in0_block_num_tiles) :
                    cb[cb_id_in0].st[s] = "reserved_r"
            /\ \A s \in Range(cb[cb_id_in1], cb[cb_id_in1].rd, rargs.in1_block_num_tiles) :
                    cb[cb_id_in1].st[s] = "reserved_r"
    /\ compute.pc = "push_out" =>
            \A s \in Range(cb[cb_id_out0], cb[cb_id_out0].wr, wargs.out_subblock_tile_count) :
                    cb[cb_id_out0].st[s] = "reserved_w"
    /\ writer.pc \in {"encode", "write"} =>
            cb[cb_id_out0].st[writer.l1_read_addr] = "reserved_r"
    /\ \A t \in wr_inflight : cb[cb_id_out0].st[t.slot] = "reserved_r"

SlotCycleOk ==
    \A c \in CbIds : \A s \in 0..(cb[c].cap - 1) :
        cb'[c].st[s] # cb[c].st[s] => <<cb[c].st[s], cb'[c].st[s]>> \in SlotStep

\* C6: with reader, compute stage and writer running together, a slot is read
\* by its consumer only between the producer's release and the consumer's
\* release, is written by its producer only between reserve and release, and
\* moves free -> reserved for write -> filled -> reserved for read -> free.
C6_SlotProtocol == [](SlotAccessOk) /\ [][SlotCycleOk]_vars

\* the reader fills one block of in0 while the compute stage holds another and
\* the writer drains output
C6_Witness ==
    /\ \E s \in 0..(cb[cb_id_in0].cap - 1) : cb[cb_id_in0].st[s] = "reserved_r"
    /\ rd_inflight # {}
    /\ \E t \in rd_inflight : t.cb = cb_id_in0
    /\ reader.b > 0
    /\ wr_inflight # {}

\* the reads of operand c the reader has issued, in order
Reads(c) == SelectSeq(rlog, LAMBDA e : e.op = "read" /\ e.cb = c)

\* the tile index of read n (from 0) of operand c: batch, then block, then
\* row, then column; in1 advances over batches only when bcast_B is 0
ReadIndex(c, n) ==
    LET in0 == c = cb_id_in0
        W == IF in0 THEN rargs.in0_block_w ELSE rargs.in1_block_w
        H == IF in0 THEN rargs.in0_block_h ELSE rargs.in1_block_h
        w == n % W
        h == (n \div W) % H
        k == (n \div (W * H)) % rargs.num_blocks
        b == n \div (W * H * rargs.num_blocks)
    IN  IF in0
        THEN rargs.in0_tensor_start_tile_id + b * rargs.MtKt
             + k * rargs.in0_tensor_next_block_stride
             + h * rargs.in0_tensor_stride_h + w * rargs.in0_tensor_stride_w
        ELSE rargs.in1_tensor_start_tile_id
             + b * (IF rargs.bcast_B = 0 THEN rargs.KtNt ELSE 0)
             + k * rargs.in1_tensor_next_block_stride
             + h * rargs.in1_tensor_stride_h + w * rargs.in1_tensor_stride_w

\* tiles of operand c in one launch
ReadTotal(c) ==
    rargs.batch * rargs.num_blocks
    * (IF c = cb_id_in0 THEN rargs.in0_block_h * rargs.in0_block_w
                        ELSE rargs.in1_block_h * rargs.in1_block_w)

\* C7: for each read operand the transfers issued visit the coordinates
\* (b, k, h, w) once each, in batch, block, row, column order, at index
\* start + b*batch_stride + k*next_block_stride + h*stride_h + w*stride_w.
C7_ReaderTraversal ==
    \A c \in {cb_id_in0, cb_id_in1} :
        LET r == Reads(c)
        IN  /\ Len(r) <= ReadTotal(c)
            /\ \A n \in 1..Len(r) : r[n].tile = ReadIndex(c, n - 1)
            /\ reader.pc = "done" => Len(r) = ReadTotal(c)

\* a launch of several batches and blocks with two-row blocks has run to its end
C7_Witness ==
    /\ reader.pc = "done"
    /\ rargs.batch > 1 /\ rargs.num_blocks > 1
    /\ rargs.in0_block_h > 1 /\ rargs.in1_block_w > 1
    /\ Len(Reads(cb_id_in0)) = ReadTotal(cb_id_in0)

\* C8: over the batches of a launch the in1 start stays where it was when
\* bcast_B is set and advances by KtNt per batch when it is not; the in0 start
\* advances by MtKt per batch either way; each batch starts its blocks there.
C8_BatchStarts ==
    /\ reader.in0_tensor_start_tile_id =
            rargs.in0_tensor_start_tile_id + reader.b * rargs.MtKt
    /\ reader.in1_tensor_start_tile_id =
            rargs.in1_tensor_start_tile_id
            + (IF rargs.bcast_B # 0 THEN 0 ELSE reader.b * rargs.KtNt)
    /\ reader.pc = "reserve0" /\ reader.block = 0 =>
            /\ reader.in0_tensor_current_block_start_tile_id = reader.in0_tensor_start_tile_id
            /\ reader.in1_tensor_current_block_start_tile_id = reader.in1_tensor_start_tile_id

\* the second batch of a broadcast launch is about to start
C8_Witness ==
    /\ reader.pc = "reserve0" /\ reader.block = 0 /\ reader.b = 1
    /\ rargs.bcast_B = 1 /\ rargs.KtNt > 0
    /\ reader.in1_tensor_start_tile_id = rargs.in1_tensor_start_tile_id
    /\ reader.in0_tensor_start_tile_id # rargs.in0_tensor_start_tile_id


\* the tile index of write n (from 0): batch, then subblock row, then subblock
\* column, then row, then column of the subblock
WriteIndex(n) ==
    LET W == wargs.out_subblock_w
        H == wargs.out_subblock_h
        w == n % W
        h == (n \div W) % H
        sbw == (n \div (W * H)) % wargs.out_num_subblocks_w
        sbh == (n \div (W * H * wargs.out_num_subblocks_w)) % wargs.out_num_subblocks_h
        b == n \div (W * H * wargs.out_num_subblocks_w * wargs.out_num_subblocks_h)
    IN  wargs.out_tensor_start_tile_id + b * wargs.MtNt
        + sbh * wargs.out_tensor_next_subblock_stride_h
        + sbw * wargs.out_tensor_next_subblock_stride_w
        + h * wargs.out_tensor_stride_h + w * wargs.out_tensor_stride_w

\* subblocks of one launch, and the events the writer logs for each
WriteSubblocks == wargs.batch * wargs.out_num_subblocks_h * wargs.out_num_subblocks_w
WriterSubblockLen == wargs.out_subblock_h * wargs.out_subblock_w + 3

\* C9: the writer's transfers go batch by batch, subblock row by subblock row,
\* subblock column by subblock column and row-major inside the subblock, to
\* start + b*MtNt + sbh*next_subblock_stride_h + sbw*next_subblock_stride_w
\* + h*stride_h + w*stride_w; tile n of a subblock comes from slot n of the
\* range obtained for it, and every staged tile is transferred once.
C9_WriterTraversal ==
    LET per == wargs.out_subblock_h * wargs.out_subblock_w
        L == WriterSubblockLen
    IN  /\ Len(wlog) <= WriteSubblocks * L
        /\ \A i \in 1..Len(wlog) :
              LET q == (i - 1) \div L
                  r == (i - 1) % L
              IN  /\ wlog[i].op = "write" <=> (1 <= r /\ r <= per)
                  /\ wlog[i].op = "wait" <=> r = 0
                  /\ wlog[i].op = "write" =>
                        /\ wlog[i].tile = WriteIndex(q * per + r - 1)
                        /\ wlog[i].slot =
                              (wlog[i - r].slot + r - 1) % cb[cb_id_out0].cap
        /\ writer.pc = "done" => Len(wlog) = WriteSubblocks * L

\* a launch of several batches and subblocks of two rows has run to its end
C9_Witness ==
    /\ writer.pc = "done"
    /\ wargs.batch > 1 /\ wargs.out_subblock_h > 1
    /\ wargs.out_num_subblocks_h * wargs.out_num_subblocks_w > 1
    /\ Len(wlog) = WriteSubblocks * WriterSubblockLen

\* the events the reader logs for one block
ReaderBlockLen ==
    rargs.in0_block_h * rargs.in0_block_w + rargs.in1_block_h * rargs.in1_block_w + 5

\* event i (from 0) of the reader's log: what it has to be
ReaderEventOk(e, i) ==
    LET n0 == rargs.in0_block_h * rargs.in0_block_w
        n1 == rargs.in1_block_h * rargs.in1_block_w
        q == i \div ReaderBlockLen
        r == i % ReaderBlockLen
    IN  IF r = 0 THEN e.op = "reserve" /\ e.cb = cb_id_in0 /\ e.n = n0
        ELSE IF r = 1 THEN e.op = "reserve" /\ e.cb = cb_id_in1 /\ e.n = n1
        ELSE IF r < 2 + n0
             THEN e.op = "read" /\ e.cb = cb_id_in0 /\ e.n = 1
                  /\ e.tile = ReadIndex(cb_id_in0, q * n0 + r - 2)
        ELSE IF r < 2 + n0 + n1
             THEN e.op = "read" /\ e.cb = cb_id_in1 /\ e.n = 1
                  /\ e.tile = ReadIndex(cb_id_in1, q * n1 + r - 2 - n0)
        ELSE IF r = 2 + n0 + n1 THEN e.op = "barrier"
        ELSE IF r = 3 + n0 + n1 THEN e.op = "push" /\ e.cb = cb_id_in0 /\ e.n = n0
        ELSE e.op = "push" /\ e.cb = cb_id_in1 /\ e.n = n1

\* event i (from 0) of the writer's log: what it has to be
WriterEventOk(e, i) ==
    LET per == wargs.out_subblock_h * wargs.out_subblock_w
        q == i \div WriterSubblockLen
        r == i % WriterSubblockLen
    IN  IF r = 0 THEN e.op = "wait" /\ e.n = per
        ELSE IF r <= per THEN e.op = "write" /\ e.tile = WriteIndex(q * per + r - 1)
        ELSE IF r = per + 1 THEN e.op = "barrier"
        ELSE e.op = "pop" /\ e.n = per

\* C10: per block and per operand a run performs H*W transfers in row-major
\* order between one reserve and one release of H*W slots, with one barrier
\* per block, B*N blocks in all; the writer does the same per subblock.
C10_BlockShape ==
    /\ Len(rlog) <= rargs.batch * rargs.num_blocks * ReaderBlockLen
    /\ \A i \in 1..Len(rlog) : ReaderEventOk(rlog[i], i - 1)
    /\ reader.pc = "done" => Len(rlog) = rargs.batch * rargs.num_blocks * ReaderBlockLen
    /\ Len(wlog) <= WriteSubblocks * WriterSubblockLen
    /\ \A i \in 1..Len(wlog) : WriterEventOk(wlog[i], i - 1)
    /\ writer.pc = "done" => Len(wlog) = WriteSubblocks * WriterSubblockLen

\* width 2, height 2, one block, one batch: the run is over with 4 transfers
\* per operand, one reserve and one release of 4 slots each, and one barrier
C10_Witness ==
    /\ reader.pc = "done" /\ writer.pc = "done"
    /\ rargs.in0_block_w = 2 /\ rargs.in0_block_h = 2
    /\ rargs.num_blocks = 1 /\ rargs.batch = 1
    /\ Len(Reads(cb_id_in0)) = 4
    /\ Len(SelectSeq(rlog, LAMBDA e : e.op = "barrier")) = 1
    /\ Len(SelectSeq(rlog, LAMBDA e : e.op = "reserve" /\ e.cb = cb_id_in0 /\ e.n = 4)) = 1
    /\ Len(SelectSeq(rlog, LAMBDA e : e.op = "push" /\ e.cb = cb_id_in0 /\ e.n = 4)) = 1
    /\ Len(SelectSeq(wlog, LAMBDA e : e.op = "write")) = 4


\* groups of a tile and values of a group
GroupIdx == 0..(NumGroups - 1)
ValueIdx == 0..(MXFP4_BLOCK_SIZE - 1)

\* the top 4 mantissa bits of a full-precision word (bits 19..22)
TopMantissa(w) == Val(LowBits(Shr(w, 19), 4))

\* the 4-bit magnitude of value j of group i of a compact tile: word
\* 5*i + 1 + j \div 8, nibble j % 8
Nibble(compact, i, j) ==
    LET word == compact[5 * i + 1 + (j \div 8)]
        k == j % 8
    IN  IF k < 4 THEN (word[2] \div (16 ^ k)) % 16
                 ELSE (word[1] \div (16 ^ (k - 4))) % 16

\* the high byte of the first word of group i of a compact tile
SharedExpByte(compact, i) == compact[5 * i][1] \div 256

\* all 32 values of group i of a full-precision tile have one exponent field
UniformGroup(tile, i) ==
    \A j, k \in ValueIdx :
        ExpField(tile[i * MXFP4_BLOCK_SIZE + j]) = ExpField(tile[i * MXFP4_BLOCK_SIZE + k])

\* C11: encode then decode of a tile gives back, in every group whose values
\* share one exponent field, each value's exponent field and top 4 mantissa
\* bits.
C11_RoundTrip ==
    codec.phase = "redecoded" =>
        \A i \in GroupIdx :
            UniformGroup(codec.tile, i) =>
                \A j \in ValueIdx :
                    LET a == i * MXFP4_BLOCK_SIZE + j
                    IN  /\ ExpField(codec.separate[a]) = ExpField(codec.tile[a])
                        /\ TopMantissa(codec.separate[a]) = TopMantissa(codec.tile[a])


\* the largest exponent field among the nonzero words of group i, 0 if none
GroupMaxExp(tile, i) ==
    LET S == {ExpField(tile[i * MXFP4_BLOCK_SIZE + j]) :
                j \in {k \in ValueIdx : tile[i * MXFP4_BLOCK_SIZE + k] # W0}}
    IN  IF S = {} THEN 0 ELSE CHOOSE m \in S : \A x \in S : x <= m

\* the magnitude of one value under its group's maximum exponent: the top 4
\* mantissa bits shifted right by the exponent difference, 0 for a zero word
\* and for a difference of 16 or more
Magnitude4(w, max_exp) ==
    IF w = W0 \/ max_exp - ExpField(w) >= 16 THEN 0
    ELSE TopMantissa(w) \div (2 ^ (max_exp - ExpField(w)))

\* C12: after encoding into a destination with any prior contents, nibble
\* j % 8 of magnitude word j \div 8 of every group holds the magnitude
\* computed for value j, and the result is the one a zeroed destination gives.
C12_PackingAnyDestination ==
    codec.phase = "encoded" =>
        /\ \A i \in GroupIdx : \A j \in ValueIdx :
              Nibble(codec.prior, i, j) =
                  Magnitude4(codec.tile[i * MXFP4_BLOCK_SIZE + j], GroupMaxExp(codec.tile, i))
        /\ codec.prior = codec.zeroed

\* C13: decoding a zero magnitude gives the zero word whatever the shared
\* exponent, and a value whose exponent field is 16 or more below its group's
\* maximum is packed as magnitude zero.
C13_LossyBound ==
    /\ codec.phase \in {"decoded", "reencoded"} =>
          \A i \in GroupIdx : \A j \in ValueIdx :
              Nibble(codec.tile, i, j) = 0 =>
                  codec.separate[i * MXFP4_BLOCK_SIZE + j] = W0
    /\ codec.phase = "redecoded" =>
          \A i \in GroupIdx : \A j \in ValueIdx :
              Nibble(codec.zeroed, i, j) = 0 =>
                  codec.separate[i * MXFP4_BLOCK_SIZE + j] = W0
    /\ codec.phase \in {"encoded", "redecoded"} =>
          \A i \in GroupIdx : \A j \in ValueIdx :
              GroupMaxExp(codec.tile, i)
                  - ExpField(codec.tile[i * MXFP4_BLOCK_SIZE + j]) >= 16 =>
                      Nibble(codec.prior, i, j) = 0

\* C14: the first word of every encoded group is the largest exponent field
\* among the group's nonzero values, 0 if there are none, in its high byte
\* and zero in its other bits.
C14_SharedExponent ==
    codec.phase \in {"encoded", "redecoded"} =>
        \A i \in GroupIdx :
            /\ codec.prior[5 * i] = <<GroupMaxExp(codec.tile, i) * 256, 0>>
            /\ codec.zeroed[5 * i] = <<GroupMaxExp(codec.tile, i) * 256, 0>>

\* an encoded tile with a group of zeros and a group of exponents 100, 110
\* and 120, the destination having held other contents
C14_Witness ==
    /\ codec.phase = "encoded"
    /\ codec.prior # codec.zeroed
    /\ \E i \in GroupIdx :
          /\ \A j \in ValueIdx : codec.tile[i * MXFP4_BLOCK_SIZE + j] = W0
          /\ SharedExpByte(codec.prior, i) = 0
    /\ \E i \in GroupIdx :
          /\ ~UniformGroup(codec.tile, i)
          /\ SharedExpByte(codec.prior, i) = 120


\* C15: decode into a separate destination writes, for every group i and
\* value j, the zero word when the magnitude is zero and otherwise the word
\* with the group's shared exponent in bits 23..30, the magnitude in bits
\* 19..22 and every other bit zero.
C15_DecodeValues ==
    codec.phase \in {"decoded", "reencoded"} =>
        \A i \in GroupIdx : \A j \in ValueIdx :
            codec.separate[i * MXFP4_BLOCK_SIZE + j] =
                IF Nibble(codec.tile, i, j) = 0 THEN W0
                ELSE <<SharedExpByte(codec.tile, i) * 128 + Nibble(codec.tile, i, j) * 8, 0>>

\* a decoded group with shared exponent 200 holding zero and nonzero
\* magnitudes
C15_Witness ==
    /\ codec.phase = "decoded"
    /\ \E i \in GroupIdx :
          /\ SharedExpByte(codec.tile, i) = 200
          /\ Nibble(codec.tile, i, 0) = 0
          /\ Nibble(codec.tile, i, 1) = 9
          /\ codec.separate[i * MXFP4_BLOCK_SIZE] = W0
          /\ codec.separate[i * MXFP4_BLOCK_SIZE + 1] = <<200 * 128 + 9 * 8, 0>>

\* C16: encode with the destination the source buffer itself gives the same
\* compact tile as encode into a separate zeroed buffer.
C16_AliasedEncodeMatchesSeparate ==
    codec.phase = "encoded" => codec.aliased = codec.zeroed


\* C20: decode into a separate buffer followed by encode into a zeroed
\* buffer gives back, for a group with a nonzero magnitude, its shared
\* exponent byte and its 32 magnitudes; for a group of zero magnitudes it
\* gives zero magnitudes and shared exponent zero.
C20_ReverseRoundTrip ==
    codec.phase = "reencoded" =>
        \A i \in GroupIdx :
            IF \E j \in ValueIdx : Nibble(codec.tile, i, j) # 0
            THEN /\ SharedExpByte(codec.zeroed, i) = SharedExpByte(codec.tile, i)
                 /\ \A j \in ValueIdx : Nibble(codec.zeroed, i, j) = Nibble(codec.tile, i, j)
            ELSE /\ SharedExpByte(codec.zeroed, i) = 0
                 /\ \A j \in ValueIdx : Nibble(codec.zeroed, i, j) = 0

\* a re-encoded tile with a group of zero magnitudes under shared exponent
\* 200 and a group of nonzero magnitudes under shared exponent 127
C20_Witness ==
    /\ codec.phase = "reencoded"
    /\ \E i \in GroupIdx :
          /\ SharedExpByte(codec.tile, i) = 200
          /\ \A j \in ValueIdx : Nibble(codec.tile, i, j) = 0
          /\ SharedExpByte(codec.zeroed, i) = 0
    /\ \E i \in GroupIdx :
          /\ SharedExpByte(codec.tile, i) = 127
          /\ \A j \in ValueIdx : Nibble(codec.tile, i, j) # 0
          /\ SharedExpByte(codec.zeroed, i) = 127


\* the number of entries of a log with operation op on buffer c
Count(log, op, c) == Len(SelectSeq(log, LAMBDA e : e.op = op /\ e.cb = c))

\* the reader has released every block of both operands and the writer has
\* transferred and released every subblock
AllReleased ==
    /\ reader.pc = "done"
    /\ Count(rlog, "push", cb_id_in0) = rargs.batch * rargs.num_blocks
    /\ Count(rlog, "push", cb_id_in1) = rargs.batch * rargs.num_blocks
    /\ writer.pc = "done"
    /\ Count(wlog, "write", cb_id_out0) =
            WriteSubblocks * wargs.out_subblock_h * wargs.out_subblock_w
    /\ Count(wlog, "pop", cb_id_out0) = WriteSubblocks
    /\ rd_inflight = {} /\ wr_inflight = {}

\* C17: when every transfer completes, the compute stage keeps consuming and
\* producing, and every circular buffer holds at least one block, the reader
\* eventually releases all batch * num_blocks blocks of both operands and the
\* writer eventually transfers and releases every subblock.
C17_EventuallyAllReleased == <>AllReleased

\* a launch of several batches has run to its end through circular buffers
\* of one block
C17_Witness ==
    /\ AllReleased
    /\ rargs.batch > 1
    /\ cb[cb_id_in0].cap = rargs.in0_block_num_tiles
    /\ cb[cb_id_out0].cap = wargs.out_subblock_tile_count
    /\ WriteSubblocks > 1


\* every slot the reader is writing or has a transfer outstanding into is
\* reserved for write
ReaderInReserved(c) ==
    /\ \A t \in rd_inflight : t.cb = c => cb[c].st[t.slot] = "reserved_w"
    /\ c = cb_id_in0 /\ reader.pc \in {"in0_read", "in0_convert"} =>
            cb[c].st[reader.l1_write_addr_in0] = "reserved_w"
    /\ c = cb_id_in1 /\ reader.pc \in {"in1_read", "in1_convert"} =>
            cb[c].st[reader.l1_write_addr_in1] = "reserved_w"

\* every slot the writer is reading or has a transfer outstanding from is
\* reserved for read
WriterInWaited ==
    /\ \A t \in wr_inflight : cb[cb_id_out0].st[t.slot] = "reserved_r"
    /\ writer.pc \in {"encode", "write"} =>
            cb[cb_id_out0].st[writer.l1_read_addr] = "reserved_r"

\* C18 as stated: for every parameter record the reader writes only slots of
\* the range it reserved for the block and the writer reads only slots of the
\* range it waited for.
C18_WithinReservedAnyRecord ==
    /\ ReaderInReserved(cb_id_in0)
    /\ ReaderInReserved(cb_id_in1)
    /\ WriterInWaited

\* C18 (amended): the reader writes only slots of the range it reserved when
\* the operand's block_num_tiles is at least block_h * block_w, and the writer
\* reads only slots it waited for when out_subblock_tile_count is at least
\* out_subblock_h * out_subblock_w.
C18_WithinReservedWhenCountCovers ==
    /\ rargs.in0_block_h * rargs.in0_block_w <= rargs.in0_block_num_tiles =>
            ReaderInReserved(cb_id_in0)
    /\ rargs.in1_block_h * rargs.in1_block_w <= rargs.in1_block_num_tiles =>
            ReaderInReserved(cb_id_in1)
    /\ wargs.out_subblock_h * wargs.out_subblock_w <= wargs.out_subblock_tile_count =>
            WriterInWaited

\* counts larger than height times width: the reader has read a second block
\* of in0 into the slots after the in0_block_num_tiles of the first, and the
\* writer has a transfer outstanding from a slot of the range it waited for
C18_Witness ==
    /\ rargs.in0_block_num_tiles > rargs.in0_block_h * rargs.in0_block_w
    /\ wargs.out_subblock_tile_count > wargs.out_subblock_h * wargs.out_subblock_w
    /\ \E k \in 1..Len(rlog) :
          /\ rlog[k].op = "read"
          /\ rlog[k].cb = cb_id_in0
          /\ rlog[k].slot >= rargs.in0_block_num_tiles
    /\ wr_inflight # {}


\* the compact-format flag of a read operand
IsMxfp4(c) == IF c = cb_id_in0 THEN rargs.in0_is_mxfp4 ELSE rargs.in1_is_mxfp4

\* the positions in the reader's log of the transfers issued into a slot
ReadsInto(c, s) ==
    {k \in 1..Len(rlog) : rlog[k].op = "read" /\ rlog[k].cb = c /\ rlog[k].slot = s}

\* no decode has run on the operand, and every slot of it released to the
\* compute stage holds the tile its last transfer delivered
StagedAsDelivered(c) ==
    /\ \A p \in decoded : p[1] # c
    /\ \A s \in 0..(cb[c].cap - 1) :
          cb[c].st[s] \in {"filled", "reserved_r"} =>
              /\ ReadsInto(c, s) # {}
              /\ LET k == CHOOSE x \in ReadsInto(c, s) : \A y \in ReadsInto(c, s) : y <= x
                 IN  l1[c][s] = DramTile(c, rlog[k].tile)

\* no encode has run, and every output transfer carries the whole tile of
\* its staging slot, a tile as the compute stage produced it
WrittenAsStaged ==
    /\ writer.pc # "encode"
    /\ writer.mxfp4_buffer = ZeroMem(0)
    /\ \A t \in wr_inflight :
          /\ t.nwords = TileElements
          /\ t.data = l1[cb_id_out0][t.slot]
          /\ \E n \in 0..(compute.produced - 1) : t.data = ComputedTile(n)

\* C19: an operand whose compact-format flag is zero gets no codec step,
\* whatever the flags of the other operands: its staged input tiles are
\* released holding the data their transfers delivered, and its output tiles
\* are transferred from their slots unmodified and at full tile size.
C19_NoCodecWhenFlagZero ==
    /\ \A c \in {cb_id_in0, cb_id_in1} : IsMxfp4(c) = 0 => StagedAsDelivered(c)
    /\ wargs.out_is_mxfp4 = 0 => WrittenAsStaged

\* in0 and the output are full precision while in1 is compact: a block of
\* both was released (in1 decoded), and an output tile is being transferred
C19_Witness ==
    /\ rargs.in0_is_mxfp4 = 0
    /\ rargs.in1_is_mxfp4 # 0
    /\ wargs.out_is_mxfp4 = 0
    /\ \A c \in {cb_id_in0, cb_id_in1} :
          \E k \in 1..Len(rlog) : rlog[k].op = "push" /\ rlog[k].cb = c
    /\ wr_inflight # {}

====
